---- MODULE Spec2Model ----
(***************************************************************************)
(* A model of adaptiveumbrella/wham2d.py: WHAM2DRunner, the umbrella       *)
(* runner that computes the PMF with the external wham-2d solver.          *)
(*                                                                         *)
(* Numbers.  Coordinates, lambdas and energies are binary floating-point   *)
(* numbers in the program (float64: a significand of 53 bits, an exponent  *)
(* from -1022 to 1023, every arithmetic operation the exact result rounded *)
(* to the nearest float, ties to even).  Here a float is <<s, e, hi, lo>>. *)
(* A normal float is the value s * (hi * 2^28 + lo) * 2^(e - 52) with      *)
(* s = 1 or -1, -1022 <= e <= 1023, 2^24 <= hi < 2^25 and 0 <= lo < 2^28,  *)
(* so that hi * 2^28 + lo is the 53-bit significand and 2^e the weight of  *)
(* its leading bit.  A subnormal float has e = -1022 and hi < 2^24: its    *)
(* last bit weighs 2^-1074, the smallest float.  Zero is <<0, 0, 0, 0>>    *)
(* (the sign of a zero is not kept: no operation of the program tells -0.0 *)
(* from 0.0), an infinity is <<s, 1024, 0, 0>> and NaN is <<0, 1024, 0, 1>>.*)
(* The operations work on the two halves of the significand (and on digits *)
(* of 14 bits for a product) and give the float the program's operation    *)
(* gives: a result below the smallest normal float is rounded to a         *)
(* multiple of 2^-1074 (the square of a float below 2^-538 is 0.0), a      *)
(* result beyond the largest float is an infinity.  A float of a table is  *)
(* a record [k, v]: k = "fin" with v a finite float, k = "inf" with v = 1  *)
(* or -1, or k = "nan".  Lambdas (index -> coordinate) are plain floats.   *)
(***************************************************************************)
EXTENDS Integers, Sequences, FiniteSets, TLC

VARIABLES
    cvs,             \* self.cvs: <<(min, max, step), (min, max, step)>>
    sample_list,     \* self.sample_list: [index pair -> frame count]
    pmf,             \* self.pmf: [index pair -> float]
    verbose,         \* self.verbose
    num_iterations,  \* self.num_iterations
    sampled,         \* what self._get_sampled_lambdas() enumerates (a sequence)
    colvars,         \* the lambda pairs whose COLVAR file exists on disk
    meta_files,      \* tmp_folder: "<n>_metadata.dat", n -> manifest or NoFile
    out_files,       \* tmp_folder: "<n>_freeenergy.dat", n -> output or NoFile
    wham_file,       \* the rows of a solver output file (after the header)
    wham_pmf,        \* the table load_wham_pmf returned
    borders,         \* what get_wham_borders returned
    manifest,        \* what create_metadata_file wrote
    writes,          \* the cell assignments update_pmf performed, in order
    proc,            \* "running", "exited" (exit(1)) or "crashed" (exception)
    calls,           \* the run_wham2d invocations of this process, in order
    obs,             \* what the last calculate_new_pmf did
    pc               \* position of the single-operation specifications

vars == <<cvs, sample_list, pmf, verbose, num_iterations, sampled, colvars,
          meta_files, out_files, wham_file, wham_pmf, borders, manifest,
          writes, proc, calls, obs, pc>>

(***************************************************************************)
(* Bounds                                                                  *)
(***************************************************************************)
NX == 2          \* pmf.shape[0] = sample_list.shape[0]
NY == 2          \* pmf.shape[1] = sample_list.shape[1]
MaxStep == 2     \* lambda steps range over 0.1 .. MaxStep / 10
MaxRows == 2     \* rows of a solver output table
MaxIter == 1     \* num_iterations ranges over 0..MaxIter
MaxCalls == 2    \* run_wham2d invocations followed in one process

(***************************************************************************)
(* Floats                                                                  *)
(***************************************************************************)
Fin(n) == [k |-> "fin", v |-> n]
np_inf == [k |-> "inf", v |-> 1]
np_neg_inf == [k |-> "inf", v |-> -1]
np_nan == [k |-> "nan", v |-> 0]
IsFin(f) == f.k = "fin"
IsInfinite(f) == f.k = "inf"

Zero == <<0, 0, 0, 0>>

\* the exponents of the smallest and of the largest normal float64
EMin == -1022
EMax == 1023

\* the infinity of sign s, NaN, and the largest finite float of sign s
Inf(s) == <<s, EMax + 1, 0, 0>>
NaN == <<0, EMax + 1, 0, 1>>
MaxFloat(s) == <<s, EMax, 2 ^ 25 - 1, 2 ^ 28 - 1>>
IsNaN(a) == a = NaN
IsInf(a) == a[2] = EMax + 1 /\ a[1] # 0

\* the weight of the upper half of a significand, and of a digit of a product
W28 == 2 ^ 28
W14 == 2 ^ 14

\* the position of the leading bit of n > 0
RECURSIVE Log2(_)
Log2(n) == IF n < 2 THEN 0
           ELSE IF n < 16 THEN 1 + Log2(n \div 2) ELSE 4 + Log2(n \div 16)

\* the number of bits of hi * 2^28 + lo > 0
BitLen(hi, lo) == IF hi > 0 THEN 29 + Log2(hi) ELSE 1 + Log2(lo)

\* (hi * 2^28 + lo) * 2^t as a pair <<hi, lo>>, for a result below 2^53
ShiftLeft(hi, lo, t) ==
    IF t >= 28 THEN <<lo * 2 ^ (t - 28), 0>>
    ELSE <<hi * 2 ^ t + lo \div 2 ^ (28 - t), (lo % 2 ^ (28 - t)) * 2 ^ t>>

\* (hi * 2^28 + lo) \div 2^d as <<hi, lo, sticky>>, for hi < 2^30: sticky = a
\* nonzero bit was shifted out
ShiftRight(hi, lo, d) ==
    IF d >= 59 THEN <<0, 0, hi # 0 \/ lo # 0>>
    ELSE IF d >= 28
    THEN <<0, hi \div 2 ^ (d - 28), lo # 0 \/ hi % 2 ^ (d - 28) # 0>>
    ELSE <<hi \div 2 ^ d, lo \div 2 ^ d + (hi % 2 ^ d) * 2 ^ (28 - d),
           lo % 2 ^ d # 0>>

\* the float <<s, e, hi, lo>>; beyond the largest exponent it is the overflow:
\* an infinity when rounding to nearest, the largest float when cutting
Ranged(s, e, hi, lo, mode) ==
    IF e > EMax THEN (IF mode = "nearest" THEN Inf(s) ELSE MaxFloat(s))
    ELSE IF hi = 0 /\ lo = 0 THEN Zero
    ELSE <<s, e, hi, lo>>

\* the same after a carry out of lo, or out of hi
Carry(s, e, hi, lo, mode) ==
    IF lo < W28 THEN Ranged(s, e, hi, lo, mode)
    ELSE IF hi + 1 < 2 ^ 25 THEN Ranged(s, e, hi + 1, 0, mode)
    ELSE Ranged(s, e + 1, 2 ^ 24, 0, mode)

\* g = <<hi, lo, sticky>> is a significand with one bit more than is kept
\* (and a fraction below it if a sticky is set): the last bit is dropped,
\* ties to even in mode "nearest" (the program's rounding), toward zero in
\* mode "zero"
RoundDrop(s, e, g, sticky, mode) ==
    Carry(s, e, g[1] \div 2,
          g[2] \div 2 + (g[1] % 2) * 2 ^ 27
              + (IF /\ mode = "nearest"
                    /\ g[2] % 2 = 1
                    /\ (g[3] \/ sticky \/ (g[2] \div 2) % 2 = 1)
                 THEN 1 ELSE 0),
          mode)

\* the weight 2^u of the last bit kept of a result whose leading bit weighs
\* 2^(u + 52): all 53 bits of a normal float, fewer of a subnormal one
Unit(u) == IF u < EMin - 52 THEN EMin - 52 ELSE u

Exact(s, e, p, mode) == Ranged(s, e, p[1], p[2], mode)

\* (hi * 2^28 + lo + f) * 2^q brought to the unit 2^u: exactly if u <= q
\* (then f = 0), else rounded
RoundUnit(s, q, hi, lo, sticky, mode, u) ==
    IF u <= q THEN Exact(s, u + 52, ShiftLeft(hi, lo, q - u), mode)
    ELSE RoundDrop(s, u + 52, ShiftRight(hi, lo, u - q - 1), sticky, mode)

\* the float of sign s for (hi * 2^28 + lo + f) * 2^q, where hi < 2^30 and f
\* is a fraction in (0, 1) if sticky and 0 otherwise, rounded as mode says:
\* a normal or subnormal float, zero (underflow) or the overflow
RoundPair(s, q, hi, lo, sticky, mode) ==
    IF hi = 0 /\ lo = 0 THEN Zero
    ELSE RoundUnit(s, q, hi, lo, sticky, mode,
                   Unit(q + BitLen(hi, lo) - 53))

\* a finite nonzero float with its significand moved up to 53 bits: the
\* exponent of a subnormal float goes below EMin
Shifted(a, t) == <<a[1], a[2] - t>> \o ShiftLeft(a[3], a[4], t)
Normal(a) ==
    IF a[3] >= 2 ^ 24 THEN a ELSE Shifted(a, 53 - BitLen(a[3], a[4]))

\* float(i) of an integer below 2^28 in magnitude
FromInt(i) ==
    RoundPair(IF i < 0 THEN -1 ELSE 1, 0, 0, IF i < 0 THEN -i ELSE i, FALSE,
              "nearest")

FNeg(a) == <<-a[1], a[2], a[3], a[4]>>

\* abs(a)
Abs(a) == <<a[1] * a[1], a[2], a[3], a[4]>>

\* abs(a) < abs(b), for no NaN
MagLess(a, b) ==
    IF b[1] = 0 THEN FALSE
    ELSE IF a[1] = 0 THEN TRUE
    ELSE \/ a[2] < b[2]
         \/ a[2] = b[2] /\ (a[3] < b[3] \/ (a[3] = b[3] /\ a[4] < b[4]))

\* a < b: False if one is NaN
FLess(a, b) ==
    IF IsNaN(a) \/ IsNaN(b) THEN FALSE
    ELSE IF a[1] < b[1] THEN TRUE
    ELSE IF a[1] > b[1] THEN FALSE
    ELSE IF a[1] = 1 THEN MagLess(a, b)
    ELSE IF a[1] = -1 THEN MagLess(b, a)
    ELSE FALSE

\* the significand of b with three more bits, moved right by d places
Aligned(b, d) ==
    ShiftRight(b[3] * 8 + b[4] \div 2 ^ 25, (b[4] % 2 ^ 25) * 8, d)

\* abs(x) + abs(y) (sgn = 1) or abs(x) - abs(y) (sgn = -1) with the sign s,
\* for y = <<hi, lo, sticky>> aligned to x; lo is the sum of the lower
\* halves, a carry or a borrow in it
AddLow(s, x, y, sgn, lo, mode) ==
    RoundPair(s, x[2] - 55,
              x[3] * 8 + x[4] \div 2 ^ 25 + sgn * y[1] + lo \div W28,
              lo % W28, y[3], mode)
AddAligned(s, x, y, sgn, mode) ==
    AddLow(s, x, y, sgn,
           (x[4] % 2 ^ 25) * 8 + sgn * y[2]
               - (IF sgn = -1 /\ y[3] THEN 1 ELSE 0),
           mode)

\* x + y for finite nonzero floats with abs(x) >= abs(y)
AddOrdered(x, y, mode) ==
    AddAligned(x[1], x, Aligned(y, x[2] - y[2]), x[1] * y[1], mode)

\* a + b rounded as mode says
FAddMode(a, b, mode) ==
    IF IsNaN(a) \/ IsNaN(b) THEN NaN
    ELSE IF IsInf(a) THEN (IF IsInf(b) /\ a[1] # b[1] THEN NaN ELSE a)
    ELSE IF IsInf(b) THEN b
    ELSE IF a[1] = 0 THEN b
    ELSE IF b[1] = 0 THEN a
    ELSE AddOrdered(IF MagLess(a, b) THEN b ELSE a,
                    IF MagLess(a, b) THEN a ELSE b, mode)

\* float + float, float - float
FAdd(a, b) == FAddMode(a, b, "nearest")
FSub(a, b) == FAddMode(a, FNeg(b), "nearest")

\* the digits, base 2^14, of a significand, the lowest first
Limbs(a) == <<a[4] % W14, a[4] \div W14, a[3] % W14, a[3] \div W14>>

\* the product of two significands of digits u and v: the columns c0 .. c6
\* with their carries, the upper 56 bits kept and the lower ones folded into
\* the sticky bit
MulLimbs(s, q, u, v) ==
    LET c0 == u[1] * v[1]
        c1 == u[1] * v[2] + u[2] * v[1] + c0 \div W14
        c2 == u[1] * v[3] + u[2] * v[2] + u[3] * v[1] + c1 \div W14
        c3 == u[1] * v[4] + u[2] * v[3] + u[3] * v[2] + u[4] * v[1] + c2 \div W14
        c4 == u[2] * v[4] + u[3] * v[3] + u[4] * v[2] + c3 \div W14
        c5 == u[3] * v[4] + u[4] * v[3] + c4 \div W14
        c6 == u[4] * v[4] + c5 \div W14
    IN RoundPair(s, q,
                 c6 * 2 ^ 6 + (c5 % W14) \div 2 ^ 8,
                 ((c5 % W14) % 2 ^ 8) * 2 ^ 20 + (c4 % W14) * 2 ^ 6
                     + (c3 % W14) \div 2 ^ 8,
                 c0 % W14 # 0 \/ c1 % W14 # 0 \/ c2 % W14 # 0
                     \/ (c3 % W14) % 2 ^ 8 # 0,
                 "nearest")

\* the product of two floats of 53-bit significands
Product(a, b) ==
    MulLimbs(a[1] * b[1], a[2] + b[2] - 54, Limbs(a), Limbs(b))

\* float * float
FMul(a, b) ==
    IF IsNaN(a) \/ IsNaN(b) THEN NaN
    ELSE IF IsInf(a) \/ IsInf(b)
    THEN (IF a[1] = 0 \/ b[1] = 0 THEN NaN ELSE Inf(a[1] * b[1]))
    ELSE IF a[1] = 0 \/ b[1] = 0 THEN Zero
    ELSE Product(Normal(a), Normal(b))

\* int * float: the integer converted (exactly), then float * float
FMulInt(i, a) == FMul(FromInt(i), a)

\* n more bits of the quotient r / q (r < q), after the bits acc: <<bits,
\* remainder>>
RECURSIVE DivBits(_, _, _, _)
DivBits(r, q, n, acc) ==
    IF n = 0 THEN <<acc, r>>
    ELSE IF 2 * r >= q THEN DivBits(2 * r - q, q, n - 1, 2 * acc + 1)
    ELSE DivBits(2 * r, q, n - 1, 2 * acc)

\* p0 / q0 in [1, 2) times 2^e: 56 bits of the quotient (28 in first), the
\* remainder in the sticky bit
RatioLow(e, q0, first, second) ==
    RoundPair(1, e - 55, first[1], second[1], second[2] # 0, "nearest")
RatioBits(e, q0, first) ==
    RatioLow(e, q0, first, DivBits(first[2], q0, 28, 0))
RatioScaled(e, p0, q0) == RatioBits(e, q0, DivBits(p0 - q0, q0, 27, 1))
RatioExp(p, q, e) ==
    IF e < 0 THEN RatioScaled(e, p * 2 ^ (-e), q)
    ELSE RatioScaled(e, p, q * 2 ^ e)

\* the float nearest to p / q for integers 0 <= p and 0 < q (below 2^15)
FromRatio(p, q) ==
    IF p = 0 THEN Zero
    ELSE RatioExp(p, q, IF p >= q THEN Log2(p \div q)
                        ELSE -(1 + Log2((q - 1) \div p)))

\* two bits of the 54-bit number hi * 2^28 + lo: the pair j, counted from
\* the top; the pairs after the number are zero
TwoBits(hi, lo, j) ==
    IF j <= 12 THEN (hi \div 2 ^ (24 - 2 * j)) % 4
    ELSE IF j <= 26 THEN (lo \div 2 ^ (52 - 2 * j)) % 4
    ELSE 0

\* the square root bit by bit: after j steps <<rhi, rlo>> is the integer
\* root of the first j pairs of bits of hi * 2^28 + lo and <<mhi, mlo>> what
\* is left of them; a step takes two more bits (n) and compares with
\* t = 4 * root + 1.  55 steps give <<root hi, root lo, inexact>> for
\* (hi * 2^28 + lo) * 2^56
RECURSIVE SqrtSteps(_, _, _, _, _, _, _)
SqrtTry(hi, lo, j, rhi, rlo, nhi, nlo, thi, tlo) ==
    IF nhi > thi \/ (nhi = thi /\ nlo >= tlo)
    THEN SqrtSteps(hi, lo, j + 1, rhi * 2 + rlo \div 2 ^ 27,
                   (rlo % 2 ^ 27) * 2 + 1,
                   nhi - thi + (nlo - tlo) \div W28, (nlo - tlo) % W28)
    ELSE SqrtSteps(hi, lo, j + 1, rhi * 2 + rlo \div 2 ^ 27,
                   (rlo % 2 ^ 27) * 2, nhi, nlo)
SqrtSteps(hi, lo, j, rhi, rlo, mhi, mlo) ==
    IF j = 55 THEN <<rhi, rlo, mhi # 0 \/ mlo # 0>>
    ELSE SqrtTry(hi, lo, j, rhi, rlo,
                 mhi * 4 + mlo \div 2 ^ 26,
                 (mlo % 2 ^ 26) * 4 + TwoBits(hi, lo, j),
                 rhi * 4 + rlo \div 2 ^ 26, (rlo % 2 ^ 26) * 4 + 1)

SqrtRound(e2, root) ==
    RoundPair(1, e2 \div 2 - 28, root[1], root[2], root[3], "nearest")

\* the root of a float of a 53-bit significand: the root of the significand
\* (doubled when its unit is an odd power of two) to 55 bits, rounded
Root(a) ==
    IF (a[2] - 52) % 2 = 1
    THEN SqrtRound(a[2] - 53,
                   SqrtSteps(a[3] * 2 + a[4] \div 2 ^ 27, (a[4] % 2 ^ 27) * 2,
                             0, 0, 0, 0, 0))
    ELSE SqrtRound(a[2] - 52, SqrtSteps(a[3], a[4], 0, 0, 0, 0, 0))

\* np.sqrt
FSqrt(a) ==
    IF IsNaN(a) \/ a[1] = -1 THEN NaN
    ELSE IF IsInf(a) THEN a
    ELSE IF a[1] = 0 THEN Zero
    ELSE Root(Normal(a))

\* the float a decimal literal n/10 denotes (a parsed or written "0.n")
Tenth(n) == FromRatio(n, 10)

\* the smallest float of a set
FMin(S) == CHOOSE m \in S : \A n \in S : ~FLess(n, m)

SetMin(S) == CHOOSE m \in S : \A n \in S : m <= n
SetMax(S) == CHOOSE m \in S : \A n \in S : n <= m

(***************************************************************************)
(* The grid and the CV Definition                                          *)
(***************************************************************************)
Cells == (0 .. NX - 1) \X (0 .. NY - 1)

\* np.ndindex order: x outer, y inner (the loops of update_pmf)
IndexSeq(nx, ny) == [i \in 1 .. nx * ny |-> <<(i - 1) \div ny, (i - 1) % ny>>]

\* a CV tuple (min, max, step) of floats
Cv(min, n, step) == <<min, FAdd(min, FMulInt(n - 1, step)), step>>

\* grids with steps 0.1, 0.2, ... and the x axis starting at 0.0 or at 0.1
CVDefs == {<<Cv(Tenth(ox), NX, Tenth(sx)), Cv(Tenth(0), NY, Tenth(sy))>> :
              ox \in 0 .. 1, sx \in 1 .. MaxStep, sy \in 1 .. MaxStep}

\* UmbrellaRunner._get_lambdas_for_index: the affine index -> coordinate map
\* min + index * step, in floats
_get_lambdas_for_index(cv, idx) ==
    LET lambda == [k \in 1 .. 2 |-> FAdd(cv[k][1], FMulInt(idx[k], cv[k][3]))]
    IN <<lambda[1], lambda[2]>>

\* the CV Definition of the cycle specifications
DefaultCv == <<Cv(Tenth(0), NX, Tenth(1)), Cv(Tenth(0), NY, Tenth(MaxStep))>>

\* solver rows at x = 0.0, 0.1, 0.3 and y = 0.0, 0.1 with two energies, a row
\* with an infinite x and a row with an infinite e
ProjectRows ==
    [x : {Fin(Tenth(0)), Fin(Tenth(1)), Fin(Tenth(3))},
     y : {Fin(Tenth(0)), Fin(Tenth(1))},
     e : {Fin(FromInt(1)), Fin(FromInt(2))}, pro : {Fin(Zero)}]
    \cup {[x |-> np_inf, y |-> Fin(Tenth(0)), e |-> Fin(FromInt(1)), pro |-> Fin(Zero)],
          [x |-> Fin(Tenth(1)), y |-> Fin(Tenth(0)), e |-> np_inf, pro |-> Fin(Zero)]}

\* the float 2^e
TwoTo(e) == <<1, e, 2 ^ 24, 0>>

\* solver rows on the line y = 0.0 with two energies: at x = 2^-600 and
\* x = 2^-599, whose squares are below the smallest float, and at x = 0.1
NearRows ==
    [x : {Fin(TwoTo(-600)), Fin(TwoTo(-599)), Fin(Tenth(1))},
     y : {Fin(Tenth(0))},
     e : {Fin(FromInt(1)), Fin(FromInt(2))}, pro : {Fin(Zero)}]

Row(x, y, e) == [x |-> Fin(Tenth(x)), y |-> Fin(Tenth(y)), e |-> e, pro |-> Fin(Zero)]

\* the tables the solver may write (it is opaque to the program)
SolverOutputs == {<<Row(0, 0, Fin(FromInt(1)))>>,
                  <<Row(0, 0, Fin(FromInt(2))), Row(1, 0, np_inf)>>}

ZeroGrid == [c \in Cells |-> 0]
InitialPmf == [c \in Cells |-> Fin(Zero)]
SampleGrids == [Cells -> {0, 1}]

(***************************************************************************)
(* get_wham_borders                                                        *)
(***************************************************************************)
\* np.nonzero(self.sample_list): the index pairs of the nonzero cells
np_nonzero(grid) == {c \in DOMAIN grid : grid[c] # 0}

NoBorders == <<Zero, Zero, Zero, Zero>>
BordersMargin1(grid, cv) ==
    LET nonzero == np_nonzero(grid) IN
    IF nonzero = {} THEN [ok |-> FALSE, val |-> NoBorders]
    ELSE
      LET idx == <<<<SetMin({c[1] : c \in nonzero}), SetMin({c[2] : c \in nonzero})>>,
                   <<SetMax({c[1] : c \in nonzero}), SetMax({c[2] : c \in nonzero})>>>>
          corner == [m \in 1 .. 2 |-> _get_lambdas_for_index(cv, idx[m])]
      IN [ok |-> TRUE,
          val |-> [k \in 1 .. 4 |->
                     IF k <= 2
                     THEN FSub(corner[1][k], cv[k][3])
                     ELSE FAdd(corner[2][k - 2], cv[k - 2][3])]]

\* returns [ok, val]: ok = FALSE is the ValueError that .min() of an empty
\* array raises; val = (min_x, min_y, max_x, max_y)
get_wham_borders(grid, cv) ==
    LET nonzero == np_nonzero(grid) IN
    IF nonzero = {} THEN [ok |-> FALSE, val |-> NoBorders]
    ELSE
      LET \* (nonzero[0].min(), nonzero[1].min()), (nonzero[0].max(), nonzero[1].max())
          idx == <<<<SetMin({c[1] : c \in nonzero}), SetMin({c[2] : c \in nonzero})>>,
                   <<SetMax({c[1] : c \in nonzero}), SetMax({c[2] : c \in nonzero})>>>>
          corner == [m \in 1 .. 2 |-> _get_lambdas_for_index(cv, idx[m])]
      IN \* the flattened array: borders[0], borders[1] -= ..., borders[2], borders[3] += ...
         [ok |-> TRUE,
          val |-> [k \in 1 .. 4 |->
                     IF k <= 2
                     THEN FSub(corner[1][k], FMulInt(2, cv[k][3]))
                     ELSE FAdd(corner[2][k - 2], FMulInt(2, cv[k - 2][3]))]]

(***************************************************************************)
(* create_metadata_file                                                    *)
(***************************************************************************)
whamconfig == [fc_x |-> 10, fc_y |-> 20]

\* os.path.join(simulation_folder, f"umb_{x}_{y}", "COLVAR"): one path per pair
colvar_path(l) == <<"umb", l[1], l[2], "COLVAR">>

MetaLine(l) == [file |-> colvar_path(l), x |-> l[1], y |-> l[2],
                fc_x |-> whamconfig.fc_x, fc_y |-> whamconfig.fc_y]

\* the lines written to "<num_iterations>_metadata.dat", in order; a pair is
\* skipped only when its COLVAR is missing AND self.verbose is set
create_metadata_file(lams, exist, verb) ==
    LET Written(l) == ~((l \notin exist) /\ verb)
    IN [l \in DOMAIN SelectSeq(lams, Written) |->
           MetaLine(SelectSeq(lams, Written)[l])]

(***************************************************************************)
(* load_wham_pmf                                                           *)
(***************************************************************************)
\* df.replace([np.inf, -np.inf], np.nan): every column of every row
ReplaceInf(f) == IF IsInfinite(f) THEN np_nan ELSE f
ReplaceRow(r) == [x |-> ReplaceInf(r.x), y |-> ReplaceInf(r.y),
                  e |-> ReplaceInf(r.e), pro |-> ReplaceInf(r.pro)]

\* read_csv(names = x y e pro), then replace and dropna(subset=['e'])
load_wham_pmf(rows) ==
    LET replaced == [i \in DOMAIN rows |-> ReplaceRow(rows[i])]
        HasE(r) == r.e.k # "nan"
    IN SelectSeq(replaced, HasE)

(***************************************************************************)
(* update_pmf                                                              *)
(***************************************************************************)
\* the columns x and y of a row
XY(r) == <<r.x, r.y>>

\* abs(wham_pmf.x - lambdax) < step, the difference a float subtraction:
\* False for a NaN (or infinite) coordinate
Within(f, lambda, step) == IsFin(f) /\ FLess(Abs(FSub(f.v, lambda)), step)

\* sqrt(dot(v, v)) of a vector of two floats
SqrtDot(v) == FSqrt(FAdd(FMul(v[1], v[1]), FMul(v[2], v[2])))

\* The difference vectors (lambda - row) of the grids and rows explored, and
\* their norms, computed once and kept by a key of the vector
Lambdas == {_get_lambdas_for_index(cv, c) : cv \in CVDefs \cup {DefaultCv}, c \in Cells}
Places == {<<r.x.v, r.y.v>> :
              r \in {r \in ProjectRows \cup NearRows \cup UNION {{t[i] : i \in DOMAIN t} : t \in SolverOutputs} :
                        IsFin(r.x) /\ IsFin(r.y)}}
DiffVectors == {<<FSub(l[1], p[1]), FSub(l[2], p[2])>> : l \in Lambdas, p \in Places}
Key(v) == ((v[1][4] % 16) + 16 * (v[2][4] % 16) + v[1][2] + v[2][2]) % 256
NormTable == [key \in 0 .. 255 |->
                {<<v, SqrtDot(v)>> : v \in {v \in DiffVectors : Key(v) = key}}]

\* the norm of v among the pairs known for it, computed if there is none
Lookup(known, v) ==
    IF known = {} THEN SqrtDot(v) ELSE (CHOOSE p \in known : TRUE)[2]

\* np.linalg.norm of a vector of two floats: sqrt(dot(v, v)), looked up if
\* the vector is one of the table
np_linalg_norm(v) == Lookup({p \in NormTable[Key(v)] : p[1] = v}, v)

\* the 'dist' column: np.linalg.norm((lambdax - row.x, lambday - row.y))
Dist(r, l) == np_linalg_norm(<<FSub(l[1], r.x.v), FSub(l[2], r.y.v)>>)

InWindowClosed(r, l, cv) ==
    \A k \in 1 .. 2 :
        IsFin(XY(r)[k]) /\ ~FLess(cv[k][3], Abs(FSub(XY(r)[k].v, l[k])))

\* the mask of line 115: both comparisons hold
InWindow(r, l, cv) == \A k \in 1 .. 2 : Within(XY(r)[k], l[k], cv[k][3])

\* reduced[reduced.dist == reduced.dist.min()].iloc[0]: the first row, by
\* position, whose dist is the least
iloc0(reduced, dist) ==
    reduced[SetMin({i \in DOMAIN reduced :
                       dist[i] = FMin({dist[j] : j \in DOMAIN reduced})})]

\* reduced[(reduced.x == min.x) & (reduced.y == min.y)]
min_row(reduced, min) ==
    LET SameXY(r) == r.x = min.x /\ r.y = min.y
    IN SelectSeq(reduced, SameXY)

\* the value assigned from the rows of the window: inf if there is none,
\* else the e of the first of min_row
WindowValue(reduced, l) ==
    IF Len(reduced) = 0 THEN np_inf
    ELSE min_row(reduced,
                 iloc0(reduced, [i \in DOMAIN reduced |-> Dist(reduced[i], l)]))[1].e

\* the value update_pmf assigns to the cell whose lambdas are l
CellValue(table, l, cv) ==
    LET Keep(r) == InWindow(r, l, cv)
    IN WindowValue(SelectSeq(table, Keep), l)

PmfWritesSkipLast(table, cv, nx, ny) ==
    LET index == IndexSeq(nx, ny)
    IN [i \in 1 .. (nx - 1) * ny |->
          [cell |-> index[i],
           val |-> CellValue(table, _get_lambdas_for_index(cv, index[i]), cv)]]

\* the assignments self.pmf[x, y] = ... of update_pmf, in loop order
PmfWrites(table, cv, nx, ny) ==
    LET index == IndexSeq(nx, ny)
    IN [i \in 1 .. nx * ny |->
          [cell |-> index[i],
           val |-> CellValue(table, _get_lambdas_for_index(cv, index[i]), cv)]]

\* the grid after the assignments ws, made in order
RECURSIVE ApplyWrites(_, _)
ApplyWrites(grid, ws) ==
    IF ws = <<>> THEN grid
    ELSE ApplyWrites([grid EXCEPT ![Head(ws).cell] = Head(ws).val], Tail(ws))

update_pmf(grid, table, cv) == ApplyWrites(grid, PmfWrites(table, cv, NX, NY))

(***************************************************************************)
(* run_wham2d                                                              *)
(***************************************************************************)
\* the exit statuses of the external solver: 0 is success
ExitCodes == {0, 1}

\* the invocation when no output file exists: with the borders b (a
\* ValueError if there are none) the solver is called and exits with err_code
call_solver(b, err_code) ==
    IF ~b.ok
    THEN [ret |-> "raise", called |-> FALSE, borders_computed |-> TRUE, b |-> b]
    ELSE [ret |-> IF err_code # 0 THEN "exit" ELSE "return",
          called |-> TRUE, borders_computed |-> TRUE, b |-> b]

run_wham2d_no_cache(out_exists, grid, cv, err_code) ==
    call_solver(get_wham_borders(grid, cv), err_code)

run_wham2d_ignore_status(out_exists, grid, cv, err_code) ==
    IF out_exists
    THEN [ret |-> "return", called |-> FALSE, borders_computed |-> FALSE,
          b |-> [ok |-> FALSE, val |-> NoBorders]]
    ELSE call_solver(get_wham_borders(grid, cv), 0)

\* how one invocation ends when the solver, if it is called, exits with
\* err_code: ret = "return", "exit" (exit(1)) or "raise" (the ValueError of
\* get_wham_borders); called = the subprocess call was made
run_wham2d(out_exists, grid, cv, err_code) ==
    IF out_exists
    THEN [ret |-> "return", called |-> FALSE, borders_computed |-> FALSE,
          b |-> [ok |-> FALSE, val |-> NoBorders]]
    ELSE call_solver(get_wham_borders(grid, cv), err_code)

(***************************************************************************)
(* State shared by the specifications                                      *)
(***************************************************************************)
Iterations == 0 .. MaxIter

NoMeta == [exists |-> FALSE, lines |-> <<>>]
NoResult == [ok |-> FALSE, val |-> NoBorders]
NoInputs == [meta |-> <<>>, borders |-> NoResult]
\* an output file: its rows, and (history) the manifest and borders of the
\* solver run that wrote it
NoOut == [exists |-> FALSE, rows |-> <<>>, made_from |-> NoInputs]

NoObs == [kind |-> "none", outcome |-> "none", cached |-> FALSE,
          borders_computed |-> FALSE, solver_calls |-> 0, err_code |-> 0,
          loader_ran |-> FALSE, projector_ran |-> FALSE,
          pmf_before |-> InitialPmf, inputs |-> NoInputs,
          file_inputs |-> NoInputs]

\* all lambdas of the grid, in index order
AllLambdas(cv) == [i \in 1 .. NX * NY |-> _get_lambdas_for_index(cv, IndexSeq(NX, NY)[i])]
Range(s) == {s[i] : i \in DOMAIN s}

Tables(rows, n) == UNION {[1 .. k -> rows] : k \in 0 .. n}

RunnerIdle ==
    /\ pmf = InitialPmf
    /\ verbose = FALSE
    /\ num_iterations = 0
    /\ proc = "running"
    /\ calls = <<>>
    /\ obs = NoObs

DiskEmpty ==
    /\ colvars = {}
    /\ meta_files = [n \in Iterations |-> NoMeta]
    /\ out_files = [n \in Iterations |-> NoOut]

ResultsEmpty ==
    /\ wham_pmf = <<>>
    /\ borders = NoResult
    /\ manifest = <<>>
    /\ writes = <<>>

(***************************************************************************)
(* SpecBorders: get_wham_borders on every sample grid                      *)
(***************************************************************************)
InitBorders ==
    /\ cvs \in CVDefs
    /\ sample_list \in SampleGrids
    /\ sampled = <<>>
    /\ wham_file = <<>>
    /\ RunnerIdle /\ DiskEmpty /\ ResultsEmpty
    /\ pc = "init"

GetWhamBorders ==
    /\ pc = "init"
    /\ borders' = get_wham_borders(sample_list, cvs)
    /\ pc' = IF borders'.ok THEN "returned" ELSE "raised"
    /\ UNCHANGED <<cvs, sample_list, pmf, verbose, num_iterations, sampled,
                   colvars, meta_files, out_files, wham_file, wham_pmf,
                   manifest, writes, proc, calls, obs>>

SpecBorders == InitBorders /\ [][GetWhamBorders]_vars

(***************************************************************************)
(* SpecMeta: create_metadata_file on every set of sampled pairs, every     *)
(* subset of existing COLVAR files and both verbosity settings             *)
(***************************************************************************)
InitMeta ==
    /\ cvs = DefaultCv
    /\ sample_list = ZeroGrid
    /\ \E S \in SUBSET Range(AllLambdas(cvs)) :
         /\ sampled = SelectSeq(AllLambdas(cvs), LAMBDA l : l \in S)
         /\ colvars \in SUBSET S
    /\ pmf = InitialPmf
    /\ verbose \in BOOLEAN
    /\ num_iterations \in Iterations
    /\ proc = "running" /\ calls = <<>> /\ obs = NoObs
    /\ meta_files = [n \in Iterations |-> NoMeta]
    /\ out_files = [n \in Iterations |-> NoOut]
    /\ wham_file = <<>>
    /\ ResultsEmpty
    /\ pc = "init"

CreateMetadataFile ==
    /\ pc = "init"
    /\ manifest' = create_metadata_file(sampled, colvars, verbose)
    /\ meta_files' = [meta_files EXCEPT ![num_iterations] =
                         [exists |-> TRUE, lines |-> manifest']]
    /\ pc' = "returned"
    /\ UNCHANGED <<cvs, sample_list, pmf, verbose, num_iterations, sampled,
                   colvars, out_files, wham_file, wham_pmf, borders, writes,
                   proc, calls, obs>>

SpecMeta == InitMeta /\ [][CreateMetadataFile]_vars

(***************************************************************************)
(* SpecLoader: load_wham_pmf on every table of rows                        *)
(***************************************************************************)
LoaderRows == [x : {Fin(Tenth(1)), np_inf}, y : {Fin(Tenth(0))},
               e : {Fin(FromInt(1)), np_inf, np_neg_inf, np_nan},
               pro : {Fin(Zero), np_inf}]

InitLoader ==
    /\ cvs = DefaultCv
    /\ sample_list = ZeroGrid
    /\ sampled = <<>>
    /\ wham_file \in Tables(LoaderRows, MaxRows)
    /\ RunnerIdle /\ DiskEmpty /\ ResultsEmpty
    /\ pc = "init"

LoadWhamPmf ==
    /\ pc = "init"
    /\ wham_pmf' = load_wham_pmf(wham_file)
    /\ pc' = "returned"
    /\ UNCHANGED <<cvs, sample_list, pmf, verbose, num_iterations, sampled,
                   colvars, meta_files, out_files, wham_file, borders,
                   manifest, writes, proc, calls, obs>>

SpecLoader == InitLoader /\ [][LoadWhamPmf]_vars

(***************************************************************************)
(* SpecProject: update_pmf on every table the loader can return            *)
(***************************************************************************)
PriorPmfs == {[c \in Cells |-> v] : v \in {Fin(Zero), np_inf}}

InitProject ==
    /\ cvs \in CVDefs
    /\ sample_list = ZeroGrid
    /\ sampled = <<>>
    /\ wham_file \in Tables(ProjectRows, MaxRows)
    /\ wham_pmf = load_wham_pmf(wham_file)
    /\ pmf \in PriorPmfs
    /\ verbose = FALSE /\ num_iterations = 0
    /\ proc = "running" /\ calls = <<>> /\ obs = NoObs
    /\ DiskEmpty
    /\ borders = NoResult /\ manifest = <<>> /\ writes = <<>>
    /\ pc = "init"

UpdatePmf ==
    /\ pc = "init"
    /\ writes' = PmfWrites(wham_pmf, cvs, NX, NY)
    /\ pmf' = ApplyWrites(pmf, writes')
    /\ pc' = "returned"
    /\ UNCHANGED <<cvs, sample_list, verbose, num_iterations, sampled,
                   colvars, meta_files, out_files, wham_file, wham_pmf,
                   borders, manifest, proc, calls, obs>>

SpecProject == InitProject /\ [][UpdatePmf]_vars

(***************************************************************************)
(* SpecNearest: update_pmf on tables of rows close to a cell               *)
(***************************************************************************)
InitNearest ==
    /\ cvs \in CVDefs
    /\ sample_list = ZeroGrid
    /\ sampled = <<>>
    /\ wham_file \in Tables(NearRows, MaxRows)
    /\ wham_pmf = load_wham_pmf(wham_file)
    /\ pmf \in PriorPmfs
    /\ verbose = FALSE /\ num_iterations = 0
    /\ proc = "running" /\ calls = <<>> /\ obs = NoObs
    /\ DiskEmpty
    /\ borders = NoResult /\ manifest = <<>> /\ writes = <<>>
    /\ pc = "init"

SpecNearest == InitNearest /\ [][UpdatePmf]_vars

(***************************************************************************)
(* Claims about the single operations                                      *)
(***************************************************************************)
Nonzero == {c \in Cells : sample_list[c] # 0}
LambdaX(ix) == FAdd(cvs[1][1], FMulInt(ix, cvs[1][3]))
LambdaY(iy) == FAdd(cvs[2][1], FMulInt(iy, cvs[2][3]))
\* twice the step of axis k: step + step is exact in floats
TwoSteps(k) == FAdd(cvs[k][3], cvs[k][3])

\* C1: for a sample grid with a nonzero cell, get_wham_borders returns
\* (min_x, min_y, max_x, max_y): the coordinates of the smallest nonzero index
\* of each axis minus two steps of that axis and of the largest plus two
\* steps (the float difference and sum of the coordinate and 2 * step), so
\* every nonzero cell's coordinate is strictly inside, by more than one step.
C1_BordersTwoStepMargin ==
    (pc # "init" /\ Nonzero # {}) =>
        /\ pc = "returned"
        /\ borders.ok
        /\ borders.val =
             <<FSub(LambdaX(SetMin({c[1] : c \in Nonzero})), TwoSteps(1)),
               FSub(LambdaY(SetMin({c[2] : c \in Nonzero})), TwoSteps(2)),
               FAdd(LambdaX(SetMax({c[1] : c \in Nonzero})), TwoSteps(1)),
               FAdd(LambdaY(SetMax({c[2] : c \in Nonzero})), TwoSteps(2))>>
        /\ \A c \in Nonzero :
             /\ FLess(borders.val[1], FSub(LambdaX(c[1]), cvs[1][3]))
             /\ FLess(FAdd(LambdaX(c[1]), cvs[1][3]), borders.val[3])
             /\ FLess(borders.val[2], FSub(LambdaY(c[2]), cvs[2][3]))
             /\ FLess(FAdd(LambdaY(c[2]), cvs[2][3]), borders.val[4])

\* the borders of a grid whose nonzero cells span both axes, with unequal steps
C1_Witness ==
    /\ pc = "returned"
    /\ cvs[1][3] # cvs[2][3]
    /\ \E c, d \in Nonzero : c[1] < d[1] /\ c[2] > d[2]
    /\ Nonzero # Cells

\* the rows of wham_pmf inside the open window of cell c, by position: the
\* float difference to the cell's coordinate is below the step on both axes
WindowRows(c) ==
    LET lambdax == LambdaX(c[1])
        lambday == LambdaY(c[2])
    IN {i \in DOMAIN wham_pmf :
          /\ wham_pmf[i].x.k = "fin" /\ wham_pmf[i].y.k = "fin"
          /\ FLess(Abs(FSub(wham_pmf[i].x.v, lambdax)), cvs[1][3])
          /\ FLess(Abs(FSub(wham_pmf[i].y.v, lambday)), cvs[2][3])}

\* the exact (unrounded) differences of row i and cell c, cut to the next
\* float toward zero: a float is above the cut difference exactly when it is
\* above the exact one
ExactDx(i, c) == FAddMode(wham_pmf[i].x.v, FNeg(LambdaX(c[1])), "zero")
ExactDy(i, c) == FAddMode(wham_pmf[i].y.v, FNeg(LambdaY(c[2])), "zero")

\* the float after a float a > 0
NextFloat(a) ==
    IF a[4] + 1 < W28 THEN <<a[1], a[2], a[3], a[4] + 1>>
    ELSE IF a[3] + 1 < 2 ^ 25 THEN <<a[1], a[2], a[3] + 1, 0>>
    ELSE <<a[1], a[2] + 1, 2 ^ 24, 0>>

\* the Euclidean distance of row i and cell c as floats give it
RowDist(i, c) ==
    np_linalg_norm(<<FSub(LambdaX(c[1]), wham_pmf[i].x.v),
                     FSub(LambdaY(c[2]), wham_pmf[i].y.v)>>)

\* rows i and j of wham_pmf are at the same place
SamePlace(i, j) ==
    wham_pmf[i].x = wham_pmf[j].x /\ wham_pmf[i].y = wham_pmf[j].y

\* row i is nearer to cell c than row j by the exact Euclidean distance,
\* where the axes decide it: the rows are at different places and on each
\* axis row i has the coordinate of row j or a smaller exact difference to
\* the cell (cut differences in strict order are exact differences in the
\* same order)
NearerThan(i, j, c) ==
    /\ ~SamePlace(i, j)
    /\ \/ wham_pmf[i].x = wham_pmf[j].x
       \/ FLess(Abs(ExactDx(i, c)), Abs(ExactDx(j, c)))
    /\ \/ wham_pmf[i].y = wham_pmf[j].y
       \/ FLess(Abs(ExactDy(i, c)), Abs(ExactDy(j, c)))

\* C2: a cell with a row inside its window receives the energy of a row at
\* minimum Euclidean distance to the cell's coordinate among the rows of the
\* window, the first in encounter order of the rows attaining the minimum:
\* if every row of the window is at the place of row m or farther from the
\* cell than row m, the cell holds the energy of the first row at that place.
C2_NearestRowByEuclideanDistance ==
    pc = "returned" =>
        \A c \in Cells : \A m \in WindowRows(c) :
            (\A j \in WindowRows(c) : SamePlace(m, j) \/ NearerThan(m, j, c)) =>
                pmf[c] = wham_pmf[SetMin({j \in WindowRows(c) :
                                            SamePlace(m, j)})].e

\* C3: after update_pmf on loader rows, a cell is +infinity exactly when no
\* row is strictly less than one step away on both axes; the rows that are,
\* by the float difference, also are by the exact difference, so a row
\* exactly one step away on an axis does not match.
C3_InfIffNoRowInOpenWindow ==
    pc = "returned" =>
        \A c \in Cells :
            LET window == WindowRows(c)
            IN /\ (pmf[c] = np_inf) <=> (window = {})
               /\ \A i \in window :
                     /\ FLess(Abs(ExactDx(i, c)), cvs[1][3])
                     /\ FLess(Abs(ExactDy(i, c)), cvs[2][3])

\* a row exactly one step away on x leaves its cell at +infinity, and a row
\* at the last float before the end of the window, a full x-step away in
\* distance, fills its cell
C3_Witness ==
    /\ pc = "returned"
    /\ \E c \in Cells : \E i \in DOMAIN wham_pmf :
          /\ pmf[c] = np_inf
          /\ wham_pmf[i].x.k = "fin" /\ wham_pmf[i].y.k = "fin"
          /\ wham_pmf[i].x.v = Zero /\ LambdaX(c[1]) = cvs[1][3]
          /\ wham_pmf[i].y.v = LambdaY(c[2])
    /\ \E c \in Cells : \E i \in WindowRows(c) :
          /\ pmf[c] = wham_pmf[i].e
          /\ FLess(LambdaX(c[1]), wham_pmf[i].x.v)
          /\ ~FLess(FSub(NextFloat(wham_pmf[i].x.v), LambdaX(c[1])), cvs[1][3])
          /\ ~FLess(RowDist(i, c), cvs[1][3])

\* C5: load_wham_pmf returns exactly the rows with a finite e, in order and
\* with all four fields unchanged.
C5_LoaderKeepsFiniteRowsIntact ==
    pc = "returned" =>
        wham_pmf = SelectSeq(wham_file, LAMBDA r : r.e.k = "fin")

\* C8: the manifest holds exactly one line per sampled pair whose COLVAR
\* exists and none for a pair whose COLVAR is missing.
C8_ManifestOnlyExistingFiles ==
    pc = "returned" =>
        /\ {<<manifest[i].x, manifest[i].y>> : i \in DOMAIN manifest}
             = {l \in Range(sampled) : l \in colvars}
        /\ Len(manifest) = Cardinality({l \in Range(sampled) : l \in colvars})

\* C9: update_pmf assigns every index pair exactly once and keeps the shape,
\* so the grid after it is the same whatever the grid before it held.
C9_EveryCellWrittenOnce ==
    pc = "returned" =>
        /\ DOMAIN pmf = Cells
        /\ \A i \in DOMAIN writes : writes[i].cell \in Cells
        /\ \A c \in Cells :
             Cardinality({i \in DOMAIN writes : writes[i].cell = c}) = 1
        /\ \A q \in PriorPmfs : ApplyWrites(q, writes) = pmf

\* an update that filled some cells and left others unmatched, from a prior
\* grid that held neither value there
C9_Witness ==
    /\ pc = "returned"
    /\ Len(writes) = NX * NY
    /\ \E c, d \in Cells : pmf[c] = np_inf /\ pmf[d] = Fin(FromInt(2))

(***************************************************************************)
(* Spec: the recompute-PMF cycles of a runner, with the collaborator       *)
(* (the base runner and its user) changing the sample grid, the iteration  *)
(* counter between cycles, and the process restarting.                    *)
(* Files stay in tmp_folder: nothing in the program removes them.          *)
(***************************************************************************)
OnlyCell(c) == [d \in Cells |-> IF d = c THEN 1 ELSE 0]
CycleGrids == {ZeroGrid, OnlyCell(<<0, 0>>), OnlyCell(<<NX - 1, NY - 1>>),
               [c \in Cells |-> 1]}

Init ==
    /\ cvs = DefaultCv
    /\ sample_list = ZeroGrid
    /\ sampled = AllLambdas(cvs)
    /\ colvars = Range(AllLambdas(cvs))
    /\ meta_files = [n \in Iterations |-> NoMeta]
    /\ out_files = [n \in Iterations |-> NoOut]
    /\ wham_file = <<>>
    /\ RunnerIdle /\ ResultsEmpty
    /\ pc = "idle"

\* the steps of calculate_new_pmf in iteration n: the manifest meta is
\* written, run_wham2d ends as r (old = the output file found at its path,
\* t = the table the solver writes if it succeeds), then the loader and the
\* projector run
Cycle(n, meta, old, r, t, err_code) ==
    LET solved == r.called /\ err_code = 0
        loads == r.ret = "return"
        file == IF solved
                THEN [exists |-> TRUE, rows |-> t,
                      made_from |-> [meta |-> meta, borders |-> r.b]]
                ELSE old
        projects == loads /\ file.exists
    IN /\ meta_files' = [meta_files EXCEPT ![n] =
                            [exists |-> TRUE, lines |-> meta]]
       /\ out_files' = [out_files EXCEPT ![n] = file]
       /\ pmf' = IF projects
                 THEN update_pmf(pmf, load_wham_pmf(file.rows), cvs)
                 ELSE pmf
       /\ proc' = IF r.ret = "exit" THEN "exited"
                  ELSE IF r.ret = "raise" \/ (loads /\ ~file.exists)
                       THEN "crashed"
                       ELSE "running"
       /\ obs' = [kind |-> "cycle",
                  outcome |-> IF loads /\ ~file.exists THEN "raise" ELSE r.ret,
                  cached |-> old.exists,
                  borders_computed |-> r.borders_computed,
                  solver_calls |-> IF r.called THEN 1 ELSE 0,
                  err_code |-> IF r.called THEN err_code ELSE 0,
                  loader_ran |-> loads,
                  projector_ran |-> projects,
                  pmf_before |-> pmf,
                  inputs |-> [meta |-> meta,
                              borders |-> get_wham_borders(sample_list, cvs)],
                  file_inputs |-> IF projects THEN file.made_from ELSE NoInputs]

\* calculate_new_pmf, with the solver's exit status and output as inputs
CalculateNewPmf ==
    /\ proc = "running"
    /\ \E err_code \in ExitCodes, t \in SolverOutputs :
         Cycle(num_iterations,
               create_metadata_file(sampled, colvars, verbose),
               out_files[num_iterations],
               run_wham2d(out_files[num_iterations].exists, sample_list, cvs,
                          err_code),
               t, err_code)
    /\ UNCHANGED <<cvs, sample_list, verbose, num_iterations, sampled, colvars,
                   wham_file, wham_pmf, borders, manifest, writes, calls, pc>>

\* the base runner records frames: self.sample_list changes
SetSampleList ==
    /\ proc = "running"
    /\ \E g \in CycleGrids : sample_list' = g
    /\ obs' = NoObs
    /\ UNCHANGED <<cvs, pmf, verbose, num_iterations, sampled, colvars,
                   meta_files, out_files, wham_file, wham_pmf, borders,
                   manifest, writes, proc, calls, pc>>

\* the base runner moves to another update iteration
SetIteration ==
    /\ proc = "running"
    /\ \E n \in Iterations : num_iterations' = n
    /\ obs' = NoObs
    /\ UNCHANGED <<cvs, sample_list, pmf, verbose, sampled, colvars,
                   meta_files, out_files, wham_file, wham_pmf, borders,
                   manifest, writes, proc, calls, pc>>

\* the program is started again: __init__ on the directories as they are
Restart ==
    /\ sample_list' = ZeroGrid
    /\ pmf' = InitialPmf
    /\ verbose' = FALSE
    /\ num_iterations' = 0
    /\ proc' = "running"
    /\ calls' = <<>>
    /\ obs' = NoObs
    /\ UNCHANGED <<cvs, sampled, colvars, meta_files, out_files, wham_file,
                   wham_pmf, borders, manifest, writes, pc>>

Next ==
    \/ CalculateNewPmf
    \/ SetSampleList
    \/ SetIteration
    \/ Restart

Spec == Init /\ [][Next]_vars

(***************************************************************************)
(* SpecInvoker: run_wham2d invoked repeatedly by a caller, on any output   *)
(* path of tmp_folder, the sample grid changing between invocations        *)
(***************************************************************************)
InitInvoker ==
    /\ cvs = DefaultCv
    /\ sample_list \in CycleGrids
    /\ sampled = AllLambdas(cvs)
    /\ colvars = Range(AllLambdas(cvs))
    /\ meta_files = [n \in Iterations |-> NoMeta]
    /\ out_files = [n \in Iterations |-> NoOut]
    /\ wham_file = <<>>
    /\ RunnerIdle /\ ResultsEmpty
    /\ pc = "idle"

\* an invocation with the paths of the iterations m and n that ends as r;
\* t = the table the solver writes if it succeeds
Invocation(m, n, r, t, err_code) ==
    /\ out_files' =
         IF r.called /\ err_code = 0
         THEN [out_files EXCEPT ![n] =
                 [exists |-> TRUE, rows |-> t,
                  made_from |-> [meta |-> meta_files[m].lines,
                                 borders |-> r.b]]]
         ELSE out_files
    /\ borders' = IF r.borders_computed THEN r.b ELSE borders
    /\ proc' = IF r.ret = "exit" THEN "exited"
               ELSE IF r.ret = "raise" THEN "crashed" ELSE "running"
    /\ calls' = Append(calls, [metafile |-> m, outfile |-> n,
                               ret |-> r.ret, called |-> r.called,
                               borders_computed |-> r.borders_computed])

\* run_wham2d(metafile_path, output_path), the paths named by their iteration
RunWham2d ==
    /\ proc = "running"
    /\ Len(calls) < MaxCalls
    /\ \E m, n \in Iterations, err_code \in ExitCodes, t \in SolverOutputs :
         Invocation(m, n,
                    run_wham2d(out_files[n].exists, sample_list, cvs, err_code),
                    t, err_code)
    /\ UNCHANGED <<cvs, sample_list, pmf, verbose, num_iterations, sampled,
                   colvars, meta_files, wham_file, wham_pmf, manifest, writes,
                   obs, pc>>

SampleListChanges ==
    /\ proc = "running"
    /\ \E g \in CycleGrids : sample_list' = g
    /\ UNCHANGED <<cvs, pmf, verbose, num_iterations, sampled, colvars,
                   meta_files, out_files, wham_file, wham_pmf, borders,
                   manifest, writes, proc, calls, obs, pc>>

NextInvoker ==
    \/ RunWham2d
    \/ SampleListChanges

SpecInvoker == InitInvoker /\ [][NextInvoker]_vars

(***************************************************************************)
(* Claims about the solver invocation and the cycle                        *)
(***************************************************************************)
\* C4: with no nonzero cell in the sample grid, a recompute-PMF cycle ends
\* with the empty-data error of the Boundary Calculator, runs neither the
\* loader nor the projector and leaves the PMF grid as it was, whatever files
\* exist.
C4_EmptyGridCycleIsFatal ==
    (obs.kind = "cycle" /\ Nonzero = {}) =>
        /\ obs.outcome = "raise"
        /\ obs.borders_computed
        /\ ~obs.loader_ran
        /\ ~obs.projector_ran
        /\ pmf = obs.pmf_before

\* C6: of two successive run_wham2d invocations with the same output path at
\* most one calls the solver; after a first that returned, the second makes
\* no call, computes no borders and returns.
C6_SecondInvocationIsNoOp ==
    \A i \in 1 .. Len(calls) - 1 :
        calls[i].outfile = calls[i + 1].outfile =>
            /\ ~(calls[i].called /\ calls[i + 1].called)
            /\ calls[i].ret = "return" =>
                 /\ ~calls[i + 1].called
                 /\ ~calls[i + 1].borders_computed
                 /\ calls[i + 1].ret = "return"

\* a first invocation that ran the solver and returned, then a second with
\* the same output path on a grid that would give borders
C6_Witness ==
    /\ Len(calls) >= 2
    /\ calls[1].outfile = calls[2].outfile
    /\ calls[1].called /\ calls[1].ret = "return"
    /\ ~calls[2].called
    /\ Nonzero # {}

\* C7: a non-zero exit status of the solver ends the cycle and the process
\* there: no loader, no projector, a single solver call, the PMF grid as
\* before, and nothing more runs in that process.
C7_SolverFailureEndsPipeline ==
    (obs.kind = "cycle" /\ obs.err_code # 0) =>
        /\ obs.outcome = "exit"
        /\ proc = "exited"
        /\ ~ENABLED CalculateNewPmf
        /\ obs.solver_calls = 1
        /\ ~obs.loader_ran
        /\ ~obs.projector_ran
        /\ pmf = obs.pmf_before

\* a failed solver run in a cycle whose PMF grid had been projected before
C7_Witness ==
    /\ obs.kind = "cycle"
    /\ obs.err_code # 0
    /\ proc = "exited"
    /\ pmf # InitialPmf

\* C10: a cycle that skips the solver and projects an existing output file
\* does so only when the file came from a solver run with the same manifest
\* and the same borders as this cycle's.
C10_CachedFileHasSameInputs ==
    (obs.kind = "cycle" /\ obs.cached /\ obs.projector_ran) =>
        obs.file_inputs = obs.inputs

====
